---- MODULE Spec2Model ----
(***************************************************************************)
(* Model of src/server.js: the in-memory data cache (load / refresh /      *)
(* staleness), the sheet parser, the local relevance search and the HTTP   *)
(* handlers that drive them.                                               *)
(*                                                                         *)
(* JavaScript runs each callback to completion, so one action of this      *)
(* module is one turn of the event loop: the synchronous code from one     *)
(* suspension point (an await on a network call) to the next.  An await on *)
(* a promise that is already settled (a suppressed loadDataIntoCache call) *)
(* resumes in the same turn, before any other I/O callback.                *)
(*                                                                         *)
(* A JavaScript string is held in the state as a TLA+ string; CharsOf      *)
(* gives its characters, and toLowerCase, split, includes and              *)
(* JSON.stringify are computed on the characters.                          *)
(***************************************************************************)
EXTENDS Integers, Sequences, FiniteSets, TLC

VARIABLES
    dataCache,  \* server.js:11  {pricingData, recallData, lastLoaded, loading}
    now,        \* the value Date.now() returns
    timer,      \* server.js:309 due time of the setInterval timer, Null if not set
    procs,      \* the async activations: startup callback, timer callback, handlers
    sent,       \* the response /api/query or /api/reload wrote in the latest turn,
                \* NoResponse if none
    errlog      \* the lines the latest turn wrote to the console on the outcome
                \* of a load or of a query: those of console.error, and the
                \* "Cached" line of server.js:113

vars == <<dataCache, now, timer, procs, sent, errlog>>

(***************************************************************************)
(* Bounds of the model.                                                    *)
(***************************************************************************)
MaxHandlers == 2    \* request handlers that may be in flight together
MaxHours == 1       \* the clock runs over MaxHours cache durations
StartTime == 1      \* Date.now() when the process starts
MaxRecords == 6     \* longest cached pricing sequence the search is tried on
MaxLead == 5        \* most rows above the header row of a parsed range
MaxDataRows == 2    \* most rows below the header row of a parsed range
MaxRecalls == 3     \* longest cached recall sequence the recall search is tried on

(***************************************************************************)
(* Program constants.                                                      *)
(***************************************************************************)
CACHE_DURATION_MS == 3600000
CHECK_INTERVAL_MS == 300000
HEADER_SCAN_ROWS == 5
MIN_KEYS == 2
MIN_SCORE == 2
MIN_WORD_LENGTH == 2
TOP_K == 5
Null == -1          \* JavaScript null (lastLoaded before the first load)

(***************************************************************************)
(* Strings.                                                                *)
(***************************************************************************)
\* the characters of every string the model's inputs are built from
CharTable ==
    ("" :> <<>>)
    @@ ("Model" :> <<"M","o","d","e","l">>)
    @@ ("engine" :> <<"e","n","g","i","n","e">>)
    @@ ("Engine" :> <<"E","n","g","i","n","e">>)
    @@ ("Svc" :> <<"S","v","c">>)
    @@ ("Price" :> <<"P","r","i","c","e">>)
    @@ ("Note" :> <<"N","o","t","e">>)
    @@ ("Prices" :> <<"P","r","i","c","e","s">>)
    @@ ("MG HS" :> <<"M","G"," ","H","S">>)
    @@ ("C3" :> <<"C","3">>)
    @@ ("Major" :> <<"M","a","j","o","r">>)
    @@ ("Minor" :> <<"M","i","n","o","r">>)
    @@ ("150" :> <<"1","5","0">>)
    @@ ("90" :> <<"9","0">>)
    @@ ("1.5T" :> <<"1",".","5","T">>)
    @@ ("HS Recall" :> <<"H","S"," ","R","e","c","a","l","l">>)
    @@ ("C3 Brakes" :> <<"C","3"," ","B","r","a","k","e","s">>)
    @@ ("Notes" :> <<"N","o","t","e","s">>)
    @@ ("major Price 150" :>
            <<"m","a","j","o","r"," ","P","r","i","c","e"," ","1","5","0">>)
    @@ ("minor Price 150" :>
            <<"m","i","n","o","r"," ","P","r","i","c","e"," ","1","5","0">>)
    @@ ("MG minor price" :>
            <<"M","G"," ","m","i","n","o","r"," ","p","r","i","c","e">>)
    @@ ("major\tprice" :> <<"m","a","j","o","r","\t","p","r","i","c","e">>)
    @@ ("price  price" :> <<"p","r","i","c","e"," "," ","p","r","i","c","e">>)
    @@ ("HS recall" :> <<"H","S"," ","r","e","c","a","l","l">>)
    @@ ("C3 recall" :> <<"C","3"," ","r","e","c","a","l","l">>)
    @@ ("brakes recall" :>
            <<"b","r","a","k","e","s"," ","r","e","c","a","l","l">>)

CharsOf(s) == CharTable[s]

UpperChars == <<"A","B","C","D","E","F","G","H","I","J","K","L","M",
                "N","O","P","Q","R","S","T","U","V","W","X","Y","Z">>
LowerChars == <<"a","b","c","d","e","f","g","h","i","j","k","l","m",
                "n","o","p","q","r","s","t","u","v","w","x","y","z">>
LowerOf ==
    [c \in {UpperChars[i] : i \in 1..26} |->
        LowerChars[CHOOSE i \in 1..26 : UpperChars[i] = c]]

\* String.prototype.toLowerCase, one character
LowerChar(c) == IF c \in DOMAIN LowerOf THEN LowerOf[c] ELSE c

\* String.prototype.toLowerCase
toLowerCase(s) == [i \in 1..Len(s) |-> LowerChar(s[i])]

\* String.prototype.includes
includes(s, w) ==
    \E i \in 0..(Len(s) - Len(w)) : \A j \in 1..Len(w) : s[i + j] = w[j]

\* the sequences of a sequence of sequences, joined
RECURSIVE Concat(_)
Concat(ss) == IF ss = <<>> THEN <<>> ELSE Head(ss) \o Concat(Tail(ss))

\* Array.prototype.join
RECURSIVE join(_, _)
join(ss, sep) ==
    IF ss = <<>> THEN <<>>
    ELSE IF Len(ss) = 1 THEN Head(ss)
    ELSE Head(ss) \o sep \o join(Tail(ss), sep)

\* String.prototype.split with a one-character separator: "a  b" gives
\* <<"a", "", "b">>, and the empty string gives <<"">>
RECURSIVE split(_, _)
split(s, sep) ==
    IF \A i \in 1..Len(s) : s[i] # sep THEN <<s>>
    ELSE LET k == CHOOSE i \in 1..Len(s) :
                      s[i] = sep /\ \A j \in 1..(i - 1) : s[j] # sep
         IN  <<SubSeq(s, 1, k - 1)>> \o split(SubSeq(s, k + 1, Len(s)), sep)

\* JSON.stringify of one string character: quote, backslash and the control
\* characters are escaped
EscapeChar(c) ==
    IF c = "\"" THEN <<"\\", "\"">>
    ELSE IF c = "\\" THEN <<"\\", "\\">>
    ELSE IF c = "\t" THEN <<"\\", "t">>
    ELSE IF c = "\n" THEN <<"\\", "n">>
    ELSE <<c>>

\* JSON.stringify of a string
StringifyString(s) ==
    <<"\"">> \o Concat([i \in 1..Len(s) |-> EscapeChar(s[i])]) \o <<"\"">>

\* JSON.stringify of a record: an object is a sequence of <<key, value>>
\* pairs in insertion order (no header of the model is an array index, the
\* only keys JavaScript would move to the front)
StringifyRecord(record) ==
    <<"{">>
    \o join([i \in 1..Len(record) |->
                StringifyString(CharsOf(record[i][1])) \o <<":">>
                \o StringifyString(CharsOf(record[i][2]))], <<",">>)
    \o <<"}">>

(***************************************************************************)
(* Sheet parser (server.js:50-90).  A sheet payload is the sequence of its *)
(* ranges (sheetData.sheets); a range is the sequence of its rows          *)
(* (sheet.data[0].rowData, the empty sequence when absent); a row is the   *)
(* sequence of its cells' formattedValue || ''.                            *)
(***************************************************************************)
\* record[header] = value: a key already present keeps its place
SetField(record, header, value) ==
    IF \E k \in 1..Len(record) : record[k][1] = header
    THEN [k \in 1..Len(record) |->
            IF record[k][1] = header THEN <<header, value>> ELSE record[k]]
    ELSE Append(record, <<header, value>>)

\* server.js:64-65: is this row a header row
IsHeaderRow(values) ==
    LET cellText ==
            toLowerCase(join([j \in 1..Len(values) |-> CharsOf(values[j])],
                             <<"|">>))
    IN  includes(cellText, <<"m","o","d","e","l">>)
        \/ includes(cellText, <<"e","n","g","i","n","e">>)

\* a faulty variant of HeaderIndex: the scan does not stop after
\* HEADER_SCAN_ROWS rows
HeaderIndexAnyRow(data) ==
    IF \E i \in 1..Len(data) : IsHeaderRow(data[i])
    THEN CHOOSE i \in 1..Len(data) :
             IsHeaderRow(data[i]) /\ \A k \in 1..(i - 1) : ~IsHeaderRow(data[k])
    ELSE 0

\* server.js:58-70: the index (from 1) of the header row, 0 if none is found
\* among the first HEADER_SCAN_ROWS rows; the scan is at row i
RECURSIVE FindHeader(_, _)
FindHeader(data, i) ==
    IF i > HEADER_SCAN_ROWS \/ i > Len(data) THEN 0
    ELSE IF IsHeaderRow(data[i]) THEN i
    ELSE FindHeader(data, i + 1)

HeaderIndex(data) == FindHeader(data, 1)

\* server.js:77-83: the record of one row, columns 1..j already assigned
RECURSIVE BuildRecord(_, _, _)
BuildRecord(headerRow, values, j) ==
    IF j = 0 THEN <<>>
    ELSE LET before == BuildRecord(headerRow, values, j - 1)
         IN  IF headerRow[j] # "" /\ values[j] # ""
             THEN SetField(before, headerRow[j], values[j])
             ELSE before

RowRecord(headerRow, values) ==
    BuildRecord(headerRow, values,
                IF Len(values) < Len(headerRow) THEN Len(values) ELSE Len(headerRow))

\* server.js:85: the gate a candidate record passes to be kept
KeepRecord(record) == Len(record) > MIN_KEYS

\* server.js:74-86: the records of the rows i..Len(data) of a range
RECURSIVE RangeRows(_, _, _)
RangeRows(headerRow, data, i) ==
    IF i > Len(data) THEN <<>>
    ELSE LET record == RowRecord(headerRow, data[i])
         IN  (IF KeepRecord(record) THEN <<record>> ELSE <<>>)
             \o RangeRows(headerRow, data, i + 1)

\* server.js:55-86: the records one range contributes
RangeRecords(data) ==
    IF Len(data) < 2 THEN <<>>
    ELSE LET headerIndex == HeaderIndex(data)
         IN  IF headerIndex = 0 THEN <<>>
             ELSE RangeRows(data[headerIndex], data, headerIndex + 1)

\* server.js:50-90
parseSheetData(sheetData) ==
    Concat([k \in 1..Len(sheetData) |-> RangeRecords(sheetData[k])])

(***************************************************************************)
(* Relevance search (server.js:129-161).                                   *)
(***************************************************************************)
\* server.js:130, 135: queryLower.split(' ').filter(w => w.length > 2)
QueryWords(query) ==
    SelectSeq(split(toLowerCase(CharsOf(query)), " "),
              LAMBDA w : Len(w) > MIN_WORD_LENGTH)

\* server.js:136-142: the words found in the text of a record
RECURSIVE CountHits(_, _)
CountHits(recordText, words) ==
    IF words = <<>> THEN 0
    ELSE (IF includes(recordText, Head(words)) THEN 1 ELSE 0)
         + CountHits(recordText, Tail(words))

\* server.js:134-142: the score of one record
ScoreWords(record, words) ==
    CountHits(toLowerCase(StringifyRecord(record)), words)

Score(record, query) == ScoreWords(record, QueryWords(query))

\* server.js:133-147: the matches, in cache order (the words are the same for
\* every record and are computed once here)
Matches(pricingData, query) ==
    LET words == QueryWords(query)
    IN  SelectSeq([i \in 1..Len(pricingData) |->
                      [record |-> pricingData[i],
                       score |-> ScoreWords(pricingData[i], words)]],
                  LAMBDA m : m.score >= MIN_SCORE)

\* a faulty variant of InsertMatch: the match is placed before the matches of
\* equal score (an unstable sort)
RECURSIVE InsertMatchUnstable(_, _)
InsertMatchUnstable(sorted, m) ==
    IF sorted = <<>> THEN <<m>>
    ELSE IF Head(sorted).score > m.score
         THEN <<Head(sorted)>> \o InsertMatchUnstable(Tail(sorted), m)
         ELSE <<m>> \o sorted

\* one match placed into a sequence sorted by descending score, after the
\* matches of equal score
RECURSIVE InsertMatch(_, _)
InsertMatch(sorted, m) ==
    IF sorted = <<>> THEN <<m>>
    ELSE IF Head(sorted).score >= m.score
         THEN <<Head(sorted)>> \o InsertMatch(Tail(sorted), m)
         ELSE <<m>> \o sorted

\* server.js:149: matches.sort((a, b) => b.score - a.score); Array.prototype.sort
\* is stable (ECMAScript 2019, V8 7.0)
RECURSIVE SortMatches(_)
SortMatches(matches) ==
    IF matches = <<>> THEN <<>>
    ELSE InsertMatch(SortMatches(SubSeq(matches, 1, Len(matches) - 1)),
                     matches[Len(matches)])

\* server.js:150: slice(0, 5)
TopMatches(sorted) ==
    SubSeq(sorted, 1, IF Len(sorted) < TOP_K THEN Len(sorted) ELSE TOP_K)

\* server.js:129-151
searchLocalData(pricingData, query) ==
    LET top == TopMatches(SortMatches(Matches(pricingData, query)))
    IN  [i \in 1..Len(top) |-> top[i].record]

\* a faulty variant of searchRecalls: a name must contain every word
searchRecallsEveryWord(recallData, query) ==
    LET words == QueryWords(query)
    IN  SelectSeq(recallData,
                  LAMBDA recall :
                      \A k \in 1..Len(words) :
                          includes(toLowerCase(CharsOf(recall.name)), words[k]))

\* server.js:154-161
searchRecalls(recallData, query) ==
    LET words == QueryWords(query)
    IN  SelectSeq(recallData,
                  LAMBDA recall :
                      \E k \in 1..Len(words) :
                          includes(toLowerCase(CharsOf(recall.name)), words[k]))

(***************************************************************************)
(* Upstream data the fetches may return, and the queries operators send.   *)
(***************************************************************************)
\* sheet 1 as first published: one range, header in the first row
SheetA ==
    << << <<"Model", "Svc", "Price">>,
          <<"MG HS", "Major", "150">>,
          <<"C3", "Minor", "150">> >> >>

\* sheet 1 after its edit: a title row, then the header; a row whose Model
\* cell is empty and a row with two cells only
SheetB ==
    << << <<"Prices">>,
          <<"Model", "Engine", "Svc", "Price">>,
          <<"", "1.5T", "Minor", "90">>,
          <<"MG HS", "1.5T">> >> >>

\* sheet 2: a range of one record and a range of a single row
SheetC ==
    << << <<"Model", "Svc", "Price">>,
          <<"MG HS", "Minor", "90">> >>,
       << <<"Prices">> >> >>

FilesA ==
    << [name |-> "HS Recall", mimeType |-> "application/pdf"],
       [name |-> "Notes", mimeType |-> "text/plain"] >>

FilesB == << [name |-> "C3 Brakes", mimeType |-> "application/pdf"] >>

\* req.body.query of the requests the server is sent; "" is a missing query
Queries == {"major Price 150", "HS recall", ""}

FetchNames == {"sheet1", "sheet2", "recalls"}

\* server.js:46: the PDF files of a Drive listing
loadRecallPDFs(files) ==
    SelectSeq(files, LAMBDA f : f.mimeType = "application/pdf")

\* the upstream documents at instant t: sheet 1 and the Drive folder are
\* edited once, after the process has started
Upstream(i, t) ==
    CASE i = "sheet1" -> IF t = StartTime THEN SheetA ELSE SheetB
      [] i = "sheet2" -> SheetC
      [] i = "recalls" -> IF t = StartTime THEN FilesA ELSE FilesB

\* server.js:29-47: what a fetch that succeeds at instant t resolves to
FetchResult(i, t) ==
    IF i = "recalls" THEN loadRecallPDFs(Upstream(i, t)) ELSE Upstream(i, t)

(***************************************************************************)
(* The cache (server.js:11-16, 93-126).                                    *)
(***************************************************************************)
EmptyCache ==
    [pricingData |-> <<>>, recallData |-> <<>>, lastLoaded |-> Null,
     loading |-> FALSE]

\* a faulty variant of needsCacheRefresh: stale from the very instant the
\* duration has elapsed
needsCacheRefreshAtLeast(cache, t) ==
    IF cache.lastLoaded = Null \/ cache.lastLoaded = 0 THEN TRUE
    ELSE (t - cache.lastLoaded) >= CACHE_DURATION_MS

\* server.js:123-126; !lastLoaded holds of null and of 0
needsCacheRefresh(cache, t) ==
    IF cache.lastLoaded = Null \/ cache.lastLoaded = 0 THEN TRUE
    ELSE (t - cache.lastLoaded) > CACHE_DURATION_MS

\* a faulty variant of CanStartLoad: the in-progress flag is not consulted
CanStartLoadAlways(cache) == TRUE

\* server.js:94: a call goes on to fetch only when no load is in progress
CanStartLoad(cache) == ~cache.loading

\* server.js:96
StartLoad(cache) == [cache EXCEPT !.loading = TRUE]

\* a faulty variant of OnResolved: the recall list is not replaced
OnResolvedStaleRecalls(cache, sheet1, sheet2, recalls, t) ==
    [pricingData |-> parseSheetData(sheet1) \o parseSheetData(sheet2),
     recallData |-> cache.recallData,
     lastLoaded |-> t,
     loading |-> FALSE]

\* a faulty variant of OnResolved: the parsed records are appended to the
\* cached ones
OnResolvedAppends(cache, sheet1, sheet2, recalls, t) ==
    [pricingData |-> cache.pricingData \o parseSheetData(sheet1)
                         \o parseSheetData(sheet2),
     recallData |-> recalls,
     lastLoaded |-> t,
     loading |-> FALSE]

\* server.js:106-111 and 118: the three fetches resolved
OnResolved(cache, sheet1, sheet2, recalls, t) ==
    [pricingData |-> parseSheetData(sheet1) \o parseSheetData(sheet2),
     recallData |-> recalls,
     lastLoaded |-> t,
     loading |-> FALSE]

\* a faulty variant of OnRejected: the failed load stamps the cache as loaded
OnRejectedStampsTime(cache) ==
    [cache EXCEPT !.loading = FALSE, !.lastLoaded = now]

\* a faulty variant of OnRejected: no finally block, the flag stays set
OnRejectedKeepsFlag(cache) == cache

\* a faulty variant of OnRejected: the failed load empties the pricing data
OnRejectedDropsData(cache) ==
    [cache EXCEPT !.loading = FALSE, !.pricingData = <<>>]

\* server.js:114-119: a fetch rejected
OnRejected(cache) == [cache EXCEPT !.loading = FALSE]

(***************************************************************************)
(* Activations.  Process 0 is the app.listen callback, process 1 the       *)
(* setInterval callback, the others are request handlers.                  *)
(***************************************************************************)
StartupProc == 0
TimerProc == 1
Handlers == 2..(MaxHandlers + 1)
Procs == 0..(MaxHandlers + 1)
FirstHandler == CHOOSE h \in Handlers : \A g \in Handlers : h <= g

NoFetch == [st |-> "none", val |-> <<>>]
PendingFetch == [st |-> "pending", val |-> <<>>]
NoFetches == [i \in FetchNames |-> NoFetch]
PendingFetches == [i \in FetchNames |-> PendingFetch]

IdleProc ==
    [kind |-> "idle", pc |-> "idle", query |-> "", fetch |-> NoFetches,
     found |-> <<>>]

\* a process that awaits its own loadDataIntoCache: lines 100-104
LoadingProc(kind, query) ==
    [kind |-> kind, pc |-> "loading", query |-> query, fetch |-> PendingFetches,
     found |-> <<>>]

NoResponse ==
    [req |-> "none", query |-> "", status |-> 0, body |-> "none",
     flag |-> FALSE, pricingRecords |-> 0, recallDocuments |-> 0,
     lastLoaded |-> Null, cacheAge |-> Null, items |-> <<>>]

\* res.json({answer}) / res.status(code).json({error}) of /api/query
QueryResponse(query, status, body, items) ==
    [NoResponse EXCEPT !.req = "query", !.query = query, !.status = status,
                       !.body = body, !.items = items]

\* server.js:191-197
ReloadResponse(settled, cache) ==
    IF settled
    THEN [NoResponse EXCEPT !.req = "reload", !.status = 200, !.body = "reload",
                            !.flag = TRUE,
                            !.pricingRecords = Len(cache.pricingData),
                            !.recallDocuments = Len(cache.recallData)]
    ELSE [NoResponse EXCEPT !.req = "reload", !.status = 500, !.body = "error"]

\* dataCache.lastLoaded ? ... : null
Truthy(lastLoaded) == lastLoaded # Null /\ lastLoaded # 0

\* server.js:166-174
HealthResponse(cache) ==
    [NoResponse EXCEPT !.req = "health", !.status = 200, !.body = "health",
                       !.flag = (cache.lastLoaded # Null),
                       !.pricingRecords = Len(cache.pricingData),
                       !.recallDocuments = Len(cache.recallData),
                       !.lastLoaded = IF Truthy(cache.lastLoaded)
                                      THEN cache.lastLoaded ELSE Null]

\* server.js:177-185
StatusResponse(cache, t) ==
    [NoResponse EXCEPT !.req = "status", !.status = 200, !.body = "status",
                       !.flag = (Len(cache.pricingData) > 0),
                       !.pricingRecords = Len(cache.pricingData),
                       !.recallDocuments = Len(cache.recallData),
                       !.lastLoaded = IF Truthy(cache.lastLoaded)
                                      THEN cache.lastLoaded ELSE Null,
                       !.cacheAge = IF Truthy(cache.lastLoaded)
                                    THEN t - cache.lastLoaded ELSE Null]

\* server.js:217
isRecallQuery(query) ==
    includes(toLowerCase(CharsOf(query)), <<"r","e","c","a","l","l">>)

RecallNames(recalls) == [k \in 1..Len(recalls) |-> recalls[k].name]

\* a faulty variant of RouteQuery: a recall query that matches no recall
\* document falls through to the pricing search
RouteQueryFallsThrough(query, cache) ==
    LET relevantRecalls == searchRecalls(cache.recallData, query)
        relevantRecords == searchLocalData(cache.pricingData, query)
    IN  IF isRecallQuery(query) /\ relevantRecalls # <<>>
        THEN [proc |-> IdleProc,
              sent |-> QueryResponse(query, 200, "recalls",
                                     RecallNames(relevantRecalls))]
        ELSE IF relevantRecords = <<>>
        THEN [proc |-> IdleProc,
              sent |-> QueryResponse(query, 200, "nodata", <<>>)]
        ELSE [proc |-> [IdleProc EXCEPT !.kind = "query",
                                        !.pc = "summarizing",
                                        !.query = query,
                                        !.found = relevantRecords],
              sent |-> NoResponse]

\* a faulty variant of RouteQuery: a pricing query goes to the summarizer
\* whether or not the search found a record
RouteQueryAlwaysSummarizes(query, cache) ==
    IF isRecallQuery(query)
    THEN [proc |-> IdleProc,
          sent |-> QueryResponse(query, 200, "norecalls",
                                 RecallNames(cache.recallData))]
    ELSE [proc |-> [IdleProc EXCEPT !.kind = "query", !.pc = "summarizing",
                                    !.query = query,
                                    !.found = searchLocalData(cache.pricingData,
                                                              query)],
          sent |-> NoResponse]

\* server.js:216-240: a query handler from the routing to its next suspension
\* point: the process it becomes and the response it writes, if any
RouteQuery(query, cache) ==
    IF isRecallQuery(query)
    THEN LET relevantRecalls == searchRecalls(cache.recallData, query)
         IN  [proc |-> IdleProc,
              sent |-> IF relevantRecalls = <<>>
                       THEN QueryResponse(query, 200, "norecalls",
                                          RecallNames(cache.recallData))
                       ELSE QueryResponse(query, 200, "recalls",
                                          RecallNames(relevantRecalls))]
    ELSE LET relevantRecords == searchLocalData(cache.pricingData, query)
         IN  IF relevantRecords = <<>>
             THEN [proc |-> IdleProc,
                   sent |-> QueryResponse(query, 200, "nodata", <<>>)]
             ELSE [proc |-> [IdleProc EXCEPT !.kind = "query",
                                             !.pc = "summarizing",
                                             !.query = query,
                                             !.found = relevantRecords],
                   sent |-> NoResponse]

\* a faulty variant of AfterLoad: the query handler searches the cache as it
\* was before its refresh replaced it
AfterLoadSearchesOld(proc, settled, cache, t, due) ==
    CASE proc.kind = "startup" ->
            [proc |-> [proc EXCEPT !.pc = "done", !.fetch = NoFetches],
             sent |-> NoResponse,
             timer |-> IF settled THEN t + CHECK_INTERVAL_MS ELSE due,
             errlog |-> IF settled THEN <<>>
                        ELSE <<"Failed to load initial data">>]
      [] proc.kind = "timer" ->
            [proc |-> [proc EXCEPT !.pc = "idle", !.fetch = NoFetches],
             sent |-> NoResponse, timer |-> due,
             errlog |-> IF settled THEN <<>> ELSE <<"Auto-refresh failed">>]
      [] proc.kind = "reload" ->
            [proc |-> IdleProc, sent |-> ReloadResponse(settled, cache),
             timer |-> due, errlog |-> <<>>]
      [] proc.kind = "query" ->
            IF settled
            THEN LET r == RouteQuery(proc.query, dataCache)
                 IN  [proc |-> r.proc, sent |-> r.sent, timer |-> due,
                      errlog |-> <<>>]
            ELSE [proc |-> IdleProc,
                  sent |-> QueryResponse(proc.query, 500, "error", <<>>),
                  timer |-> due, errlog |-> <<"Query error">>]

\* a faulty variant of AfterLoad: the query handler has no catch around its
\* refresh, so a rejected load leaves the request without a response
AfterLoadNoCatch(proc, settled, cache, t, due) ==
    CASE proc.kind = "startup" ->
            [proc |-> [proc EXCEPT !.pc = "done", !.fetch = NoFetches],
             sent |-> NoResponse,
             timer |-> IF settled THEN t + CHECK_INTERVAL_MS ELSE due,
             errlog |-> IF settled THEN <<>>
                        ELSE <<"Failed to load initial data">>]
      [] proc.kind = "timer" ->
            [proc |-> [proc EXCEPT !.pc = "idle", !.fetch = NoFetches],
             sent |-> NoResponse, timer |-> due,
             errlog |-> IF settled THEN <<>> ELSE <<"Auto-refresh failed">>]
      [] proc.kind = "reload" ->
            [proc |-> IdleProc, sent |-> ReloadResponse(settled, cache),
             timer |-> due, errlog |-> <<>>]
      [] proc.kind = "query" ->
            IF settled
            THEN LET r == RouteQuery(proc.query, cache)
                 IN  [proc |-> r.proc, sent |-> r.sent, timer |-> due,
                      errlog |-> <<>>]
            ELSE [proc |-> [proc EXCEPT !.fetch = NoFetches],
                  sent |-> NoResponse, timer |-> due, errlog |-> <<>>]

\* what the caller of loadDataIntoCache does once the promise is settled
\* (settled = TRUE: resolved, FALSE: rejected), with the cache as the load
\* left it: server.js:190-198 (reload), 213-240 and 288-294 (query),
\* 305-322 (startup), 313-316 (timer); errlog is what the caller writes
\* with console.error
AfterLoad(proc, settled, cache, t, due) ==
    CASE proc.kind = "startup" ->
            [proc |-> [proc EXCEPT !.pc = "done", !.fetch = NoFetches],
             sent |-> NoResponse,
             timer |-> IF settled THEN t + CHECK_INTERVAL_MS ELSE due,
             errlog |-> IF settled THEN <<>>
                        ELSE <<"Failed to load initial data">>]
      [] proc.kind = "timer" ->
            [proc |-> [proc EXCEPT !.pc = "idle", !.fetch = NoFetches],
             sent |-> NoResponse, timer |-> due,
             errlog |-> IF settled THEN <<>> ELSE <<"Auto-refresh failed">>]
      [] proc.kind = "reload" ->
            [proc |-> IdleProc, sent |-> ReloadResponse(settled, cache),
             timer |-> due, errlog |-> <<>>]
      [] proc.kind = "query" ->
            IF settled
            THEN LET r == RouteQuery(proc.query, cache)
                 IN  [proc |-> r.proc, sent |-> r.sent, timer |-> due,
                      errlog |-> <<>>]
            ELSE [proc |-> IdleProc,
                  sent |-> QueryResponse(proc.query, 500, "error", <<>>),
                  timer |-> due, errlog |-> <<"Query error">>]

\* the instants the clock takes: the start, one cache duration later (the
\* cache loaded at the start is not yet stale), and one timer interval
\* after each full cache duration
Instants ==
    {StartTime, StartTime + CACHE_DURATION_MS} \cup
    {StartTime + h * CACHE_DURATION_MS + CHECK_INTERVAL_MS : h \in 1..MaxHours}

InRefresh(p) == procs[p].pc = "loading"
Listening == procs[StartupProc].pc # "init"

\* a request is served by the first free handler (handlers are interchangeable)
FreeHandler(h) ==
    /\ procs[h].pc = "idle"
    /\ \A g \in Handlers : g < h => procs[g].pc # "idle"

InitProcs ==
    [p \in Procs |->
        IF p = StartupProc
        THEN [IdleProc EXCEPT !.kind = "startup", !.pc = "init"]
        ELSE IF p = TimerProc THEN [IdleProc EXCEPT !.kind = "timer"]
        ELSE IdleProc]

Init ==
    /\ dataCache = EmptyCache
    /\ now = StartTime
    /\ timer = Null
    /\ procs = InitProcs
    /\ sent = NoResponse
    /\ errlog = <<>>

\* server.js:300-305: the listen callback runs and awaits the first load
StartupListen ==
    /\ procs[StartupProc].pc = "init"
    /\ IF CanStartLoad(dataCache)
       THEN /\ dataCache' = StartLoad(dataCache)
            /\ procs' = [procs EXCEPT ![StartupProc] = LoadingProc("startup", "")]
            /\ UNCHANGED timer
       ELSE LET r == AfterLoad(procs[StartupProc], TRUE, dataCache, now, timer)
            IN  /\ procs' = [procs EXCEPT ![StartupProc] = r.proc]
                /\ timer' = r.timer
                /\ UNCHANGED dataCache
    /\ sent' = NoResponse
    /\ errlog' = <<>>
    /\ UNCHANGED now

\* server.js:202-240: POST /api/query arrives
QueryRequest(h, query) ==
    /\ Listening
    /\ FreeHandler(h)
    /\ IF query = ""
       THEN /\ sent' = QueryResponse(query, 400, "invalid", <<>>)
            /\ UNCHANGED <<dataCache, procs>>
       ELSE IF needsCacheRefresh(dataCache, now) /\ CanStartLoad(dataCache)
       THEN /\ dataCache' = StartLoad(dataCache)
            /\ procs' = [procs EXCEPT ![h] = LoadingProc("query", query)]
            /\ sent' = NoResponse
       ELSE LET r == RouteQuery(query, dataCache)
            IN  /\ procs' = [procs EXCEPT ![h] = r.proc]
                /\ sent' = r.sent
                /\ UNCHANGED dataCache
    /\ errlog' = <<>>
    /\ UNCHANGED <<now, timer>>

\* server.js:188-199: POST /api/reload arrives
ReloadRequest(h) ==
    /\ Listening
    /\ FreeHandler(h)
    /\ IF CanStartLoad(dataCache)
       THEN /\ dataCache' = StartLoad(dataCache)
            /\ procs' = [procs EXCEPT ![h] = LoadingProc("reload", "")]
            /\ sent' = NoResponse
       ELSE /\ sent' = ReloadResponse(TRUE, dataCache)
            /\ UNCHANGED <<dataCache, procs>>
    /\ errlog' = <<>>
    /\ UNCHANGED <<now, timer>>

\* server.js:166-174: GET /health answers HealthResponse(dataCache) in one
\* turn; it reads the cache and changes nothing
HealthRequest ==
    /\ Listening
    /\ HealthResponse(dataCache).status = 200
    /\ UNCHANGED vars

\* server.js:177-185: GET /api/status answers StatusResponse(dataCache, now)
\* in one turn; it reads the cache and changes nothing
StatusRequest ==
    /\ Listening
    /\ StatusResponse(dataCache, now).status = 200
    /\ UNCHANGED vars

\* server.js:309-318: the interval timer fires
TimerFire ==
    /\ timer # Null
    /\ now >= timer
    /\ timer' = now + CHECK_INTERVAL_MS
    /\ IF needsCacheRefresh(dataCache, now) /\ CanStartLoad(dataCache)
       THEN /\ dataCache' = StartLoad(dataCache)
            /\ procs' = [procs EXCEPT ![TimerProc] = LoadingProc("timer", "")]
       ELSE UNCHANGED <<dataCache, procs>>
    /\ sent' = NoResponse
    /\ errlog' = <<>>
    /\ UNCHANGED now

\* server.js:32-33, 42-43, 114-119: one fetch of a load fails; Promise.all
\* rejects at once, and the fetches still pending are abandoned (their
\* results reach no code)
FetchFails(p, i) ==
    /\ InRefresh(p)
    /\ procs[p].fetch[i].st = "pending"
    /\ LET cache == OnRejected(dataCache)
           r == AfterLoad(procs[p], FALSE, cache, now, timer)
       IN  /\ dataCache' = cache
           /\ procs' = [procs EXCEPT ![p] = r.proc]
           /\ sent' = r.sent
           /\ timer' = r.timer
           /\ errlog' = <<"Error loading data">> \o r.errlog
    /\ UNCHANGED now

AllFetched(fetch) == \A i \in FetchNames : fetch[i].st = "ok"

\* server.js:35, 45-46, 100-118: one fetch of a load returns; with the last one
\* Promise.all resolves and the cache is replaced
FetchReturns(p, i) ==
    /\ InRefresh(p)
    /\ procs[p].fetch[i].st = "pending"
    /\ LET fetch == [procs[p].fetch EXCEPT
                        ![i] = [st |-> "ok", val |-> FetchResult(i, now)]]
       IN  IF AllFetched(fetch)
           THEN LET cache == OnResolved(dataCache, fetch["sheet1"].val,
                                        fetch["sheet2"].val, fetch["recalls"].val,
                                        now)
                    r == AfterLoad(procs[p], TRUE, cache, now, timer)
                IN  /\ dataCache' = cache
                    /\ procs' = [procs EXCEPT ![p] = r.proc]
                    /\ sent' = r.sent
                    /\ timer' = r.timer
                    /\ errlog' = <<"Cached">> \o r.errlog
           ELSE /\ procs' = [procs EXCEPT ![p].fetch = fetch]
                /\ sent' = NoResponse
                /\ errlog' = <<>>
                /\ UNCHANGED <<dataCache, timer>>
    /\ UNCHANGED now

\* server.js:278-286: the summarizer answers
SummarizerReturns(h) ==
    /\ procs[h].pc = "summarizing"
    /\ sent' = QueryResponse(procs[h].query, 200, "answer", procs[h].found)
    /\ errlog' = <<>>
    /\ procs' = [procs EXCEPT ![h] = IdleProc]
    /\ UNCHANGED <<dataCache, now, timer>>

\* a faulty variant of SummarizerFails: the error handling also drops the
\* cached data
SummarizerFailsDropsCache(h) ==
    /\ procs[h].pc = "summarizing"
    /\ sent' = QueryResponse(procs[h].query, 500, "error", <<>>)
    /\ errlog' = <<"Query error">>
    /\ procs' = [procs EXCEPT ![h] = IdleProc]
    /\ dataCache' = [dataCache EXCEPT !.pricingData = <<>>, !.lastLoaded = Null]
    /\ UNCHANGED <<now, timer>>

\* server.js:288-294: the summarizer call throws
SummarizerFails(h) ==
    /\ procs[h].pc = "summarizing"
    /\ sent' = QueryResponse(procs[h].query, 500, "error", <<>>)
    /\ errlog' = <<"Query error">>
    /\ procs' = [procs EXCEPT ![h] = IdleProc]
    /\ UNCHANGED <<dataCache, now, timer>>

\* time passes, to the next instant of the clock; the interval timer is
\* serviced every CHECK_INTERVAL_MS, so no due timer is left waiting while
\* a longer time passes
Tick ==
    /\ timer = Null \/ timer > now
    /\ \E t \in Instants :
          /\ t > now
          /\ \A u \in Instants : u > now => t <= u
          /\ now' = t
    /\ sent' = NoResponse
    /\ errlog' = <<>>
    /\ UNCHANGED <<dataCache, timer, procs>>

Next ==
    \/ StartupListen
    \/ \E h \in Handlers, q \in Queries : QueryRequest(h, q)
    \/ \E h \in Handlers : ReloadRequest(h)
    \/ HealthRequest
    \/ StatusRequest
    \/ TimerFire
    \/ \E p \in Procs, i \in FetchNames : FetchFails(p, i)
    \/ \E p \in Procs, i \in FetchNames : FetchReturns(p, i)
    \/ \E h \in Handlers : SummarizerReturns(h)
    \/ \E h \in Handlers : SummarizerFails(h)
    \/ Tick

Spec == Init /\ [][Next]_vars
\* an external call of process p (a sheet fetch or the file listing of its
\* load, lines 29-47, or its summarizer call, line 278) returns or fails
Completes(p) ==
    \/ \E i \in FetchNames : FetchFails(p, i) \/ FetchReturns(p, i)
    \/ p \in Handlers /\ (SummarizerReturns(p) \/ SummarizerFails(p))

\* the server when every external call eventually returns or fails
FairSpec == Init /\ [][Next]_vars /\ \A p \in Procs : WF_vars(Completes(p))


(***************************************************************************)
(* The search on its own: a loaded server whose cache holds any sequence   *)
(* of at most MaxRecords parsed records, sent pricing queries.             *)
(***************************************************************************)
RecordA == << <<"Model", "MG HS">>, <<"Svc", "Major">>, <<"Price", "150">> >>
RecordB == << <<"Model", "C3">>, <<"Svc", "Minor">>, <<"Price", "150">> >>
RecordC == << <<"Model", "MG HS">>, <<"Svc", "Minor">>, <<"Price", "90">> >>
RecordPool == {RecordA, RecordB, RecordC}

SearchQueries ==
    {"major Price 150", "minor Price 150", "MG minor price", "major\tprice"}

SearchInit ==
    /\ dataCache \in
          {[pricingData |-> pricingData,
            recallData |-> FetchResult("recalls", StartTime),
            lastLoaded |-> StartTime,
            loading |-> FALSE] :
              pricingData \in UNION {[1..n -> RecordPool] : n \in 0..MaxRecords}}
    /\ now = StartTime
    /\ timer = StartTime + CHECK_INTERVAL_MS
    /\ procs = [InitProcs EXCEPT ![StartupProc].pc = "done"]
    /\ sent = NoResponse
    /\ errlog = <<>>

SearchNext == \E q \in SearchQueries : QueryRequest(FirstHandler, q)

SearchSpec == SearchInit /\ [][SearchNext]_vars

(***************************************************************************)
(* The parser on its own: the startup load has fetched the two sheets and  *)
(* awaits the Drive listing.  Sheet 1 is one range: at most MaxLead rows,  *)
(* a header row, at most MaxDataRows rows.                                 *)
(***************************************************************************)
\* rows above the header: a title row, a row of data, or a row that itself
\* names the engine column
LeadRows ==
    {<<"Prices">>, <<"MG HS", "Major", "150">>, <<"Engine", "Svc", "Price">>}

HeaderRows == {<<"Model", "Svc", "Price">>, <<"Svc", "Engine", "Price", "Note">>}

DataRows == {<<"MG HS", "Major", "150">>, <<"C3", "1.5T", "90", "Minor">>}

ParseSheets ==
    { << lead \o <<header>> \o rows >> :
          lead \in UNION {[1..n -> LeadRows] : n \in 0..MaxLead},
          header \in HeaderRows,
          rows \in UNION {[1..n -> DataRows] : n \in 0..MaxDataRows} }

ParseInit ==
    /\ dataCache = StartLoad(EmptyCache)
    /\ now = StartTime
    /\ timer = Null
    /\ \E sheet \in ParseSheets :
           procs = [InitProcs EXCEPT
                       ![StartupProc] =
                           [LoadingProc("startup", "") EXCEPT
                               !.fetch["sheet1"] = [st |-> "ok", val |-> sheet],
                               !.fetch["sheet2"] =
                                   [st |-> "ok",
                                    val |-> FetchResult("sheet2", StartTime)]]]
    /\ sent = NoResponse
    /\ errlog = <<>>

ParseNext ==
    \/ FetchReturns(StartupProc, "recalls")
    \/ FetchFails(StartupProc, "recalls")

ParseSpec == ParseInit /\ [][ParseNext]_vars

(***************************************************************************)
(* The server while the upstream documents do not change: the clock stays  *)
(* at StartTime, so every fetch of every refresh returns the same data.    *)
(***************************************************************************)
StableNext ==
    \/ StartupListen
    \/ \E h \in Handlers, q \in Queries : QueryRequest(h, q)
    \/ \E h \in Handlers : ReloadRequest(h)
    \/ HealthRequest
    \/ StatusRequest
    \/ \E p \in Procs, i \in FetchNames : FetchFails(p, i)
    \/ \E p \in Procs, i \in FetchNames : FetchReturns(p, i)
    \/ \E h \in Handlers : SummarizerReturns(h)
    \/ \E h \in Handlers : SummarizerFails(h)

StableSpec == Init /\ [][StableNext]_vars

(***************************************************************************)
(* The recall search on its own: a loaded server whose cache holds any     *)
(* sequence of at most MaxRecalls PDF descriptors, sent recall queries.    *)
(***************************************************************************)
RecallPool ==
    {[name |-> n, mimeType |-> "application/pdf"] :
        n \in {"HS Recall", "C3 Brakes", "Notes"}}

RecallQueries == {"HS recall", "C3 recall", "brakes recall"}

RecallInit ==
    /\ dataCache \in
          {[pricingData |-> parseSheetData(SheetA),
            recallData |-> recallData,
            lastLoaded |-> StartTime,
            loading |-> FALSE] :
              recallData \in UNION {[1..n -> RecallPool] : n \in 0..MaxRecalls}}
    /\ now = StartTime
    /\ timer = StartTime + CHECK_INTERVAL_MS
    /\ procs = [InitProcs EXCEPT ![StartupProc].pc = "done"]
    /\ sent = NoResponse
    /\ errlog = <<>>

RecallNext == \E q \in RecallQueries : QueryRequest(FirstHandler, q)

RecallSpec == RecallInit /\ [][RecallNext]_vars

(***************************************************************************)
(* Properties.                                                             *)
(***************************************************************************)
\* the activations whose loadDataIntoCache is between line 96 and line 118
Refreshing == {p \in Procs : InRefresh(p)}

\* the three data fields of the cache
Snapshot(cache) == <<cache.pricingData, cache.recallData, cache.lastLoaded>>

\* the latest turn wrote this line with console.error
Wrote(line) == \E k \in 1..Len(errlog) : errlog[k] = line

\* this step is the exit of a refresh through its catch block (line 115)
FailedExit(p) ==
    InRefresh(p) /\ ~InRefresh(p)' /\ Wrote("Error loading data")'

\* this step is the exit of a refresh that resolved (lines 106-113)
SucceededExit(p) ==
    InRefresh(p) /\ ~InRefresh(p)' /\ ~Wrote("Error loading data")'

AtMostOneRefresh == Cardinality(Refreshing) <= 1

\* a step taken while a refresh is running that is not a step of that
\* refresh (every call of loadDataIntoCache made meanwhile is such a step):
\* no activation enters a refresh, the cache is untouched, the load reports
\* no error, and an error response can only be a failed summarizer call
SuppressedCallIsNoOp ==
    (dataCache.loading /\ \A p \in Refreshing : procs'[p] = procs[p]) =>
        /\ Refreshing' = Refreshing
        /\ dataCache' = dataCache
        /\ ~Wrote("Error loading data")'
        /\ sent'.status = 500 =>
              \E h \in Handlers :
                  procs[h].pc = "summarizing" /\ procs'[h].pc = "idle"

\* C1: in every interleaving of queries, reloads, the startup load and the
\* timer, at most one refresh is in progress; a call of loadDataIntoCache
\* made while dataCache.loading is set starts no fetch, changes no cache
\* field and returns without an error.
C1_ReentrancySuppression ==
    []AtMostOneRefresh /\ [][SuppressedCallIsNoOp]_vars

\* a reload answered with success while another activation's refresh is
\* still running: the reload's own call was suppressed
C1_Witness ==
    /\ dataCache.loading
    /\ sent.req = "reload"
    /\ sent.status = 200
    /\ \E p \in Procs : InRefresh(p) /\ procs[p].kind = "query"

FlagTracksRefresh == dataCache.loading <=> Refreshing # {}

\* after a step from a state where p is refreshing, the flag is set exactly
\* if p is still refreshing: the exit clears it, nothing else does
FlagClearedOnExitOnly ==
    \A p \in Procs : InRefresh(p) => (dataCache'.loading <=> InRefresh(p)')

\* C2: dataCache.loading is true exactly while a refresh is between its
\* start and its exit; the exit of a refresh, by success or by failure,
\* clears the flag, and no other step (a suppressed call among them) clears
\* the flag of a refresh that is still running.
C2_LoadingFlag ==
    []FlagTracksRefresh /\ [][FlagClearedOnExitOnly]_vars

\* a refresh has just failed and the flag is clear again
C2_Witness ==
    /\ Wrote("Error loading data")
    /\ ~dataCache.loading
    /\ Refreshing = {}

\* the caller that awaited the failed refresh of p is told: the reload and
\* the query answer 500, the startup callback and the timer callback log
RaisedToCaller(p) ==
    CASE procs[p].kind = "reload" ->
            sent'.req = "reload" /\ sent'.status = 500
      [] procs[p].kind = "query" ->
            /\ sent'.req = "query" /\ sent'.status = 500
            /\ sent'.query = procs[p].query
      [] procs[p].kind = "startup" -> Wrote("Failed to load initial data")'
      [] procs[p].kind = "timer" -> Wrote("Auto-refresh failed")'

\* from the start of a refresh to its failed exit the three data fields keep
\* their values: the starting step, every step while the refresh runs and
\* the failing step itself change none of them
FailureLeavesCache ==
    /\ (\E p \in Procs : ~InRefresh(p) /\ InRefresh(p)') =>
           Snapshot(dataCache') = Snapshot(dataCache)
    /\ (Refreshing # {} /\ ~\E p \in Procs : SucceededExit(p)) =>
           Snapshot(dataCache') = Snapshot(dataCache)
    /\ \A p \in Procs :
           FailedExit(p) =>
               /\ Snapshot(dataCache') = Snapshot(dataCache)
               /\ ~dataCache'.loading
               /\ RaisedToCaller(p)

\* C3: if any of the three fetches fails, then after the refresh exits the
\* pricing sequence, the recall sequence and lastLoaded equal their values
\* before the refresh started, the flag is cleared, and the failure is
\* raised to the caller that started the refresh.
C3_FailureAllOrNothing == [][FailureLeavesCache]_vars

\* a reload has just failed over a cache that holds data
C3_Witness ==
    /\ Wrote("Error loading data")
    /\ sent.req = "reload"
    /\ sent.status = 500
    /\ dataCache.pricingData # <<>>
    /\ dataCache.recallData # <<>>

\* what the refresh of p writes when its fetch i is the last to return, now
RefreshOutput(p, i) ==
    LET fetch == [procs[p].fetch EXCEPT
                     ![i] = [st |-> "ok", val |-> FetchResult(i, now)]]
    IN  << parseSheetData(fetch["sheet1"].val)
               \o parseSheetData(fetch["sheet2"].val),
           fetch["recalls"].val,
           now >>

\* a step that changes any of the three data fields replaces all three by
\* the output of one refresh
SnapshotReplacedWhole ==
    Snapshot(dataCache') # Snapshot(dataCache) =>
        \E p \in Refreshing, i \in FetchNames :
            /\ procs[p].fetch[i].st = "pending"
            /\ \A j \in FetchNames \ {i} : procs[p].fetch[j].st = "ok"
            /\ Snapshot(dataCache') = RefreshOutput(p, i)

\* what a response written in the latest turn reports is the cache as it is
\* at the end of that turn
ReadersSeeCache ==
    /\ dataCache.lastLoaded = Null =>
           dataCache.pricingData = <<>> /\ dataCache.recallData = <<>>
    /\ (sent.req = "reload" /\ sent.status = 200) =>
           /\ sent.pricingRecords = Len(dataCache.pricingData)
           /\ sent.recallDocuments = Len(dataCache.recallData)
    /\ sent.body = "norecalls" => sent.items = RecallNames(dataCache.recallData)
    /\ sent.body = "recalls" =>
           sent.items = RecallNames(searchRecalls(dataCache.recallData, sent.query))
    /\ sent.body = "nodata" =>
           searchLocalData(dataCache.pricingData, sent.query) = <<>>

\* C4: in every state a reader can observe, the pricing sequence, the
\* recall sequence and lastLoaded are the complete output of one refresh
\* (or the initial empty state); no reader sees the pricing data of one
\* refresh with the recall data or the timestamp of another.
C4_SnapshotAtomicity == []ReadersSeeCache /\ [][SnapshotReplacedWhole]_vars

\* a reload has replaced an earlier snapshot and reports the new one
C4_Witness ==
    /\ sent.req = "reload"
    /\ sent.status = 200
    /\ ~dataCache.loading
    /\ dataCache.lastLoaded > StartTime
    /\ dataCache.recallData = loadRecallPDFs(FilesB)

\* C5: whenever POST /api/query returns an answer rather than an error, the
\* cache it searched was produced by a successfully completed refresh, also
\* when the query arrives while the cache was never loaded and another
\* refresh is in progress.
C5_AnswerFromLoadedCache ==
    (sent.req = "query" /\ sent.status = 200) => dataCache.lastLoaded # Null

StaleByAge ==
    /\ dataCache.lastLoaded = Null => needsCacheRefresh(dataCache, now)
    /\ dataCache.lastLoaded # Null =>
           (needsCacheRefresh(dataCache, now)
                <=> now - dataCache.lastLoaded > CACHE_DURATION_MS)

StaleUntilRefreshed ==
    /\ (\E p \in Procs : SucceededExit(p)) => ~needsCacheRefresh(dataCache', now')
    /\ (needsCacheRefresh(dataCache, now) /\ ~\E p \in Procs : SucceededExit(p))
           => needsCacheRefresh(dataCache', now')

\* C6: needsCacheRefresh() is true while no refresh has ever succeeded; it
\* is false right after a successful refresh and while now - lastLoaded
\* does not exceed CACHE_DURATION_MS; it is true once now - lastLoaded
\* exceeds it, and stays true until the next successful refresh.
C6_StalenessPredicate == []StaleByAge /\ [][StaleUntilRefreshed]_vars

\* a cache that was loaded and has outlived the duration
C6_Witness ==
    /\ dataCache.lastLoaded # Null
    /\ now - dataCache.lastLoaded > CACHE_DURATION_MS
    /\ needsCacheRefresh(dataCache, now)

\* C7: while the server is running a periodic check re-evaluates staleness
\* and starts a refresh whenever the cache is stale, the cache never loaded
\* because the startup load failed included: once the startup callback is
\* done the interval timer is set.
C7_TimerSetAfterStartup == procs[StartupProc].pc = "done" => timer # Null

\* the scores of the cached records for a query, in cache order
RECURSIVE ScoresFrom(_, _)
ScoresFrom(pricingData, words) ==
    IF pricingData = <<>> THEN <<>>
    ELSE <<ScoreWords(Head(pricingData), words)>>
         \o ScoresFrom(Tail(pricingData), words)

ScoresOf(pricingData, query) == ScoresFrom(pricingData, QueryWords(query))

\* the positions of the records that pass the minimum score
MatchIndex(scores) == {i \in 1..Len(scores) : scores[i] >= MIN_SCORE}

\* position i ranks before position j: a higher score, or the same score and
\* earlier in the cache
RanksBefore(scores, i, j) ==
    scores[i] > scores[j] \/ (scores[i] = scores[j] /\ i < j)

\* the place (from 1) of position i in the ranking
RankOf(scores, i) ==
    1 + Cardinality({j \in MatchIndex(scores) : RanksBefore(scores, j, i)})

\* the first TOP_K records of the ranking
Ranking(pricingData, scores) ==
    LET matched == MatchIndex(scores)
        n == IF Cardinality(matched) < TOP_K THEN Cardinality(matched) ELSE TOP_K
    IN  [k \in 1..n |->
            pricingData[CHOOSE i \in matched : RankOf(scores, i) = k]]

\* C8: for every query and every cache content searchLocalData returns at
\* most TOP_K = 5 records, in descending order of score, records of equal
\* score in their order in the cache; the result is exactly the first TOP_K
\* records of that ranking.
C8_StableTopK ==
    /\ \A h \in Handlers :
           procs[h].pc = "summarizing" =>
               /\ Len(procs[h].found) <= TOP_K
               /\ procs[h].found =
                      Ranking(dataCache.pricingData,
                              ScoresOf(dataCache.pricingData, procs[h].query))
    /\ sent.body = "nodata" =>
           MatchIndex(ScoresOf(dataCache.pricingData, sent.query)) = {}

\* a search that had more than TOP_K matches of two different scores, a
\* lower score ahead of a higher one in the cache, and returned TOP_K of them
C8_Witness ==
    \E h \in Handlers :
        /\ procs[h].pc = "summarizing"
        /\ Len(procs[h].found) = TOP_K
        /\ LET scores == ScoresOf(dataCache.pricingData, procs[h].query)
           IN  /\ Cardinality(MatchIndex(scores)) > TOP_K
               /\ \E i, j \in MatchIndex(scores) : i < j /\ scores[i] < scores[j]

Whitespace == {" ", "\t", "\n"}

\* the whitespace-separated tokens of a string
RECURSIVE Tokens(_)
Tokens(s) ==
    IF s = <<>> THEN <<>>
    ELSE IF Head(s) \in Whitespace THEN Tokens(Tail(s))
    ELSE LET n == CHOOSE k \in 1..Len(s) :
                      /\ \A j \in 1..k : s[j] \notin Whitespace
                      /\ k = Len(s) \/ s[k + 1] \in Whitespace
         IN  <<SubSeq(s, 1, n)>> \o Tokens(SubSeq(s, n + 1, Len(s)))

\* the number of whitespace-separated query tokens longer than
\* MIN_WORD_LENGTH that occur in the lower-cased text of the record
TokenScore(record, query) ==
    CountHits(toLowerCase(StringifyRecord(record)),
              SelectSeq(Tokens(toLowerCase(CharsOf(query))),
                        LAMBDA w : Len(w) > MIN_WORD_LENGTH))

\* C9: a record's score is the number of whitespace-separated query tokens
\* of length > 2 that occur in the record's lower-cased text, and a record
\* is returned only if that score is at least 2: every record returned has
\* such a score, and when none is returned no cached record has one.
C9_ScoreCountsLongTokens ==
    /\ \A h \in Handlers :
           procs[h].pc = "summarizing" =>
               \A k \in 1..Len(procs[h].found) :
                   TokenScore(procs[h].found[k], procs[h].query) >= MIN_SCORE
    /\ sent.body = "nodata" =>
           \A k \in 1..Len(dataCache.pricingData) :
               TokenScore(dataCache.pricingData[k], sent.query) < MIN_SCORE

\* the record has a non-empty "Model" field
HasModel(record) ==
    \E k \in 1..Len(record) : record[k][1] = "Model" /\ record[k][2] # ""

\* C10: every record parseSheetData produces, and so every record of the
\* cached pricing sequence after any refresh, has a non-empty "Model" field.
C10_CachedRecordsHaveModel ==
    \A k \in 1..Len(dataCache.pricingData) : HasModel(dataCache.pricingData[k])


\* the rows of a range, among its first HEADER_SCAN_ROWS, with a cell whose
\* lower-cased text contains "model" or "engine"
HeaderCandidates(data) ==
    {i \in 1..Len(data) :
        /\ i <= HEADER_SCAN_ROWS
        /\ \E j \in 1..Len(data[i]) :
               LET cell == toLowerCase(CharsOf(data[i][j]))
               IN  includes(cell, <<"m","o","d","e","l">>)
                   \/ includes(cell, <<"e","n","g","i","n","e">>)}

\* the records of a range when its header is the first candidate row and
\* its candidate records are the rows strictly after that row
RangeRecordsByHeader(data) ==
    IF HeaderCandidates(data) = {} THEN <<>>
    ELSE LET h == CHOOSE i \in HeaderCandidates(data) :
                      \A k \in HeaderCandidates(data) : i <= k
             after == [i \in 1..(Len(data) - h) |-> RowRecord(data[h], data[h + i])]
         IN  SelectSeq(after, KeepRecord)

RecordsByHeader(sheetData) ==
    Concat([k \in 1..Len(sheetData) |-> RangeRecordsByHeader(sheetData[k])])

\* the value of fetch i of the refresh of p once all have returned
FetchedBy(p, i) ==
    IF procs[p].fetch[i].st = "ok" THEN procs[p].fetch[i].val
    ELSE FetchResult(i, now)

HeaderDetection ==
    \A p \in Procs :
        SucceededExit(p) =>
            dataCache'.pricingData =
                RecordsByHeader(FetchedBy(p, "sheet1"))
                    \o RecordsByHeader(FetchedBy(p, "sheet2"))

\* C11: for every range the header is the first row among the first 5 rows
\* whose lower-cased cells contain "model" or "engine"; with no such row
\* among the first 5 the range contributes no record, even when a later row
\* qualifies; only rows strictly after the header row become records.
C11_HeaderDetection == [][HeaderDetection]_vars

\* a load has cached the one record of a sheet whose header row names the
\* engine column: the record pairs that header's cells with the row's
C11_Witness ==
    /\ dataCache.lastLoaded # Null
    /\ Len(dataCache.pricingData) = 2
    /\ dataCache.pricingData[1] =
           << <<"Svc", "C3">>, <<"Engine", "1.5T">>, <<"Price", "90">>,
              <<"Note", "Minor">> >>


\* a refresh that succeeds over a cache an earlier refresh loaded leaves the
\* pricing sequence and the recall sequence as they were
RefreshRepeats ==
    (dataCache.lastLoaded # Null /\ \E p \in Procs : SucceededExit(p)) =>
        /\ dataCache'.pricingData = dataCache.pricingData
        /\ dataCache'.recallData = dataCache.recallData

\* C12: two consecutive successful refreshes against identical upstream
\* data produce the same pricing sequence and the same recall sequence
\* (count, content and order); the second replaces, it does not append.
C12_RefreshIdempotent == [][RefreshRepeats]_vars

\* a reload's own refresh has just succeeded after the startup load had
\* succeeded, and the cache holds the records of the two sheets once
C12_Witness ==
    /\ sent.req = "reload"
    /\ sent.status = 200
    /\ ~dataCache.loading
    /\ procs[StartupProc].pc = "done"
    /\ timer # Null
    /\ dataCache.pricingData = parseSheetData(SheetA) \o parseSheetData(SheetC)
    /\ dataCache.pricingData # <<>>


\* in this step a handler passes the routing of lines 216-240 with query q:
\* after its own refresh, or in the turn the request arrived
Routed(q) ==
    \/ \E h \in Handlers :
           /\ procs[h].kind = "query" /\ procs[h].query = q
           /\ SucceededExit(h)
    \/ \E h \in Handlers :
           /\ procs[h].pc = "idle" /\ procs'[h].pc = "summarizing"
           /\ procs'[h].query = q
    \/ /\ sent'.req = "query" /\ sent'.query = q
       /\ sent'.status = 200 /\ sent'.body # "answer"

\* no handler calls the summarizer in this step
NoSummarizerCall ==
    \A h \in Handlers :
        procs'[h].pc = "summarizing" => procs[h].pc = "summarizing"

EmptySearchAnswered ==
    \A q \in Queries :
        (/\ Routed(q)
         /\ ~isRecallQuery(q)
         /\ searchLocalData(dataCache'.pricingData, q) = <<>>) =>
            /\ sent' = QueryResponse(q, 200, "nodata", <<>>)
            /\ NoSummarizerCall

\* C13: a non-recall query handled while the cached pricing sequence is
\* empty at search time, or whenever the search returns no record, is
\* answered with the "No pricing data found" message as a normal answer
\* (status 200), and the summarizer is not called for it.
C13_EmptySearchNoSummarizer == [][EmptySearchAnswered]_vars

\* a pricing query has just been answered "No pricing data found" from an
\* empty pricing sequence
C13_Witness ==
    /\ sent = QueryResponse("major Price 150", 200, "nodata", <<>>)
    /\ dataCache.pricingData = <<>>


\* C14: POST /api/reload answers success only if a refresh completed
\* successfully during the handling of that request, also when the request
\* arrives while another refresh is in progress: in the turn that writes the
\* success response the cache has just been loaded and no load is running.
C14_ReloadSuccessIsFresh ==
    (sent.req = "reload" /\ sent.status = 200) =>
        /\ ~dataCache.loading
        /\ dataCache.lastLoaded = now


\* in this step the summarizer call of handler h fails
SummarizerFailure(h) ==
    /\ procs[h].pc = "summarizing"
    /\ procs'[h].pc # "summarizing"
    /\ Wrote("Query error")'

SummarizerFailureLocal ==
    \A h \in Handlers :
        SummarizerFailure(h) =>
            /\ sent' = QueryResponse(procs[h].query, 500, "error", <<>>)
            /\ dataCache' = dataCache
            /\ timer' = timer
            /\ \A p \in Procs \ {h} : procs'[p] = procs[p]

\* C15: when the summarizer call of a query fails, that query alone is
\* answered with an error, the cache (pricing sequence, recall sequence,
\* lastLoaded, in-progress flag) is unchanged by the failure and its
\* handling, and the other activations are unaffected.
C15_SummarizerFailureLocal == [][SummarizerFailureLocal]_vars

\* a summarizer call has just failed while another query awaits its own
\* summarizer call and a refresh is running
C15_Witness ==
    /\ Wrote("Query error")
    /\ ~Wrote("Error loading data")
    /\ sent.req = "query"
    /\ sent.status = 500
    /\ dataCache.loading
    /\ dataCache.pricingData # <<>>
    /\ \E g \in Handlers : procs[g].pc = "summarizing"


\* the positions of the cached descriptors whose lower-cased name contains
\* at least one of the query's words
RecallIndex(recallData, query) ==
    LET words == QueryWords(query)
    IN  {i \in 1..Len(recallData) :
            \E w \in {words[k] : k \in 1..Len(words)} :
                includes(toLowerCase(CharsOf(recallData[i].name)), w)}

\* the names a sequence of positions picks: increasing positions, every
\* position of the set
PicksInOrder(names, recallData, index) ==
    \E pos \in [1..Len(names) -> index] :
        /\ \A k \in 1..Len(names) : names[k] = recallData[pos[k]].name
        /\ \A k \in 1..(Len(names) - 1) : pos[k] < pos[k + 1]
        /\ {pos[k] : k \in 1..Len(names)} = index

SearchedNewCache(h, q) ==
    IF isRecallQuery(q)
    THEN LET relevantRecalls == searchRecalls(dataCache'.recallData, q)
         IN  /\ sent'.req = "query" /\ sent'.query = q /\ sent'.status = 200
             /\ sent'.items =
                    RecallNames(IF relevantRecalls = <<>>
                                THEN dataCache'.recallData ELSE relevantRecalls)
    ELSE LET relevantRecords == searchLocalData(dataCache'.pricingData, q)
         IN  IF relevantRecords = <<>>
             THEN sent' = QueryResponse(q, 200, "nodata", <<>>)
             ELSE /\ procs'[h].pc = "summarizing"
                  /\ procs'[h].found = relevantRecords

ReadYourRefresh ==
    \A h \in Handlers :
        (procs[h].kind = "query" /\ SucceededExit(h)) =>
            /\ \E i \in FetchNames :
                   /\ procs[h].fetch[i].st = "pending"
                   /\ Snapshot(dataCache') = RefreshOutput(h, i)
            /\ SearchedNewCache(h, procs[h].query)

\* C17: if a query handler finds the cache stale, starts a refresh itself
\* and that refresh succeeds, its search runs against the snapshot that
\* refresh wrote, never against the one current when the query arrived; no
\* other activation replaces or clears the cache between the swap and the
\* search.
C17_ReadYourRefresh == [][ReadYourRefresh]_vars

\* the turn in which a pricing query's own refresh succeeded has answered
\* the query from the records that refresh cached
C17_Witness ==
    /\ Wrote("Cached")
    /\ sent = QueryResponse("major Price 150", 200, "nodata", <<>>)
    /\ dataCache.pricingData # <<>>
    /\ dataCache.lastLoaded = now


\* lastLoaded is written by the successful exit of a refresh and by nothing
\* else; it is then the current instant, not below its former value
StampedBySuccessOnly ==
    /\ dataCache'.lastLoaded # dataCache.lastLoaded =>
           /\ \E p \in Procs : SucceededExit(p)
           /\ dataCache'.lastLoaded = now
           /\ dataCache.lastLoaded # Null =>
                  dataCache'.lastLoaded >= dataCache.lastLoaded
    /\ (\E p \in Procs : SucceededExit(p)) => dataCache'.lastLoaded # Null
    /\ \A p \in Procs :
           FailedExit(p) =>
               /\ dataCache'.lastLoaded = dataCache.lastLoaded
               /\ needsCacheRefresh(dataCache', now')
                      = needsCacheRefresh(dataCache, now)

\* over a stale cache with no load running, no query is routed before a
\* refresh (a query that arrives starts one), and the timer callback, when
\* it runs, starts one
StaleStartsRefresh ==
    (needsCacheRefresh(dataCache, now) /\ ~dataCache.loading) =>
        /\ NoSummarizerCall
        /\ ~(sent'.req = "query" /\ sent'.status = 200 /\ sent'.body # "answer")
        /\ (timer # Null /\ timer' # timer) => InRefresh(TimerProc)'

\* C18: lastLoaded is non-null if and only if a refresh has completed
\* successfully; only a successful refresh changes it and it never
\* decreases; a failed or suppressed refresh leaves lastLoaded and the value
\* of needsCacheRefresh unchanged, so after a failed refresh of a stale
\* cache the next query or timer tick starts a new refresh.
C18_TimestampBookkeeping ==
    /\ [](dataCache.lastLoaded = Null \/ dataCache.lastLoaded <= now)
    /\ [][StampedBySuccessOnly /\ StaleStartsRefresh]_vars

\* a refresh of a loaded, stale cache has just failed: the cache is still
\* stale and no load is running
C18_Witness ==
    /\ Wrote("Error loading data")
    /\ dataCache.lastLoaded # Null
    /\ now - dataCache.lastLoaded > CACHE_DURATION_MS
    /\ needsCacheRefresh(dataCache, now)
    /\ ~dataCache.loading


\* a query routed in this step: a recall query is answered at once with
\* names of recall documents, whatever the pricing sequence holds; any other
\* query ends by what the pricing search finds, whatever the recall
\* sequence holds
RoutedByKind ==
    \A q \in Queries :
        Routed(q) =>
            IF isRecallQuery(q)
            THEN /\ NoSummarizerCall
                 /\ sent'.req = "query" /\ sent'.query = q
                 /\ sent'.body \in {"recalls", "norecalls"}
                 /\ \E relevantRecalls \in
                            {searchRecalls(dataCache'.recallData, q)} :
                        sent'.items =
                            RecallNames(IF relevantRecalls = <<>>
                                        THEN dataCache'.recallData
                                        ELSE relevantRecalls)
            ELSE \E relevantRecords \in
                        {searchLocalData(dataCache'.pricingData, q)} :
                     IF relevantRecords = <<>>
                     THEN /\ NoSummarizerCall
                          /\ sent' = QueryResponse(q, 200, "nodata", <<>>)
                     ELSE /\ sent' = NoResponse
                          /\ \E h \in Handlers :
                                 /\ procs[h].pc # "summarizing"
                                 /\ procs'[h].pc = "summarizing"
                                 /\ procs'[h].query = q
                                 /\ procs'[h].found = relevantRecords

\* a handler that awaits the summarizer ends with whatever the summarizer
\* call gives: it writes its response and makes no second call
OneSummarizerCall ==
    \A h \in Handlers :
        (procs[h].pc = "summarizing" /\ procs'[h] # procs[h]) =>
            /\ procs'[h] = IdleProc
            /\ sent'.req = "query"
            /\ sent'.query = procs[h].query

SummarizerGetsMatches ==
    \A h \in Handlers :
        procs[h].pc = "summarizing" =>
            /\ ~isRecallQuery(procs[h].query)
            /\ Len(procs[h].found) >= 1
            /\ Len(procs[h].found) <= TOP_K

\* C19: a query whose lower-cased text contains "recall" is handled by
\* searchRecalls and direct formatting only, never by the pricing search or
\* the summarizer; any other query never consults the recall sequence; the
\* summarizer is called at most once per query and only with between 1 and
\* 5 matched pricing records.
C19_RoutingExclusive ==
    []SummarizerGetsMatches /\ [][RoutedByKind /\ OneSummarizerCall]_vars

\* a recall query has just been answered from the recall sequence while a
\* pricing query awaits the summarizer with its matched records
C19_Witness ==
    /\ sent.body = "recalls"
    /\ dataCache.pricingData # <<>>
    /\ \E h \in Handlers :
           /\ procs[h].pc = "summarizing"
           /\ ~isRecallQuery(procs[h].query)
           /\ Len(procs[h].found) \in 1..TOP_K


\* handler h holds a request that has no response yet
Unanswered(h) == procs[h].pc \in {"loading", "summarizing"}

\* the response written in this step ends the request handler h holds
AnswersRequestOf(h) ==
    /\ procs'[h] = IdleProc
    /\ IF procs[h].kind = "reload"
       THEN sent'.req = "reload"
       ELSE sent'.req = "query" /\ sent'.query = procs[h].query

\* a request that is waiting gets no response while it waits and exactly
\* one when its handler ends; a response is written only for a request
\* that ends or one that arrives in the same step
OneResponsePerRequest ==
    /\ \A h \in Handlers :
          (Unanswered(h) /\ procs'[h] # procs[h]) =>
              \/ AnswersRequestOf(h)
              \/ /\ Unanswered(h)'
                 /\ procs'[h].kind = procs[h].kind
                 /\ procs'[h].query = procs[h].query
                 /\ sent' = NoResponse
    /\ sent' # NoResponse =>
          \/ \E h \in Handlers : Unanswered(h) /\ AnswersRequestOf(h)
          \/ procs' = procs /\ \E h \in Handlers : FreeHandler(h)
    /\ \A h \in Handlers :
          (~Unanswered(h) /\ Unanswered(h)') => sent' = NoResponse

\* a request that arrives while a refresh is in flight does not wait for a
\* refresh: its handler awaits at most the summarizer
NoWaitForOthersRefresh ==
    \A h \in Handlers :
        (dataCache.loading /\ ~Unanswered(h)) => procs'[h].pc # "loading"

\* a handler waits for a refresh only while fetches of its own load are
\* pending
WaitsForOwnFetches ==
    \A h \in Handlers :
        InRefresh(h) => \E i \in FetchNames : procs[h].fetch[i].st = "pending"

EveryRequestAnswered ==
    \A h \in Handlers :
        Unanswered(h) ~> (procs[h] = IdleProc /\ sent # NoResponse)

\* C20: when every external call eventually returns or fails, every
\* /api/query and /api/reload request receives exactly one response in every
\* interleaving; a request never waits for a refresh started by another
\* request, and a failed refresh leaves no later request blocked.
C20_AnsweredExactlyOnce ==
    /\ [][OneResponsePerRequest /\ NoWaitForOthersRefresh]_vars
    /\ []WaitsForOwnFetches
    /\ EveryRequestAnswered

\* a reload has just been answered with the error of its failed refresh
\* while a query that arrived earlier still awaits the summarizer
C20_Witness ==
    /\ sent.req = "reload"
    /\ sent.status = 500
    /\ Wrote("Error loading data")
    /\ \E h \in Handlers : procs[h].pc = "summarizing"

====
